---- MODULE Spec2Model ----
(***************************************************************************)
(* Model of busdisplay.py: the BusDisplay driver for the Bustec BTM140.2   *)
(* LED display (MBI5039 shift registers): the wire encoding of the frame   *)
(* buffer (_reverse_bits, _process_buffer), the brightness mapping (scale) *)
(* and the controller operations (construct, set_brightness, on, off,      *)
(* write) together with the inherited frame buffer drawing calls.          *)
(***************************************************************************)
EXTENDS Integers, Sequences, FiniteSets, TLC

VARIABLES
    width,       \* constructor argument width (columns of the display)
    buffer,      \* self.buffer: the bytearray behind the frame buffer
    brightness,  \* self.brightness: the stored output-enable duty
    duty,        \* the duty last given to self.oe.duty_u16
    trace,       \* history: the self.spi.write and self.le.value calls, in order
    calls,       \* history: self.buffer at every call of write()
    onSnap,      \* history: self.brightness at the latest on() / write(show=True) call
    last,        \* history: the latest call, its arguments and whether it raised
    arg,         \* input of the function under test (function specifications)
    res,         \* its result
    pc           \* "ctl" for the controller, "call"/"done" for a function under test

vars == <<width, buffer, brightness, duty, trace, calls, onSnap, last, arg, res, pc>>

ctlVars == <<width, buffer, brightness, duty, trace, calls, onSnap, last>>

fnVars == <<arg, res, pc>>

(***************************************************************************)
(* Program constants.                                                      *)
(***************************************************************************)
brightness_max == 40000

brightness_min == 65535

display_height == 16

PctMin == 0

PctMax == 100

DutyOff == 65535

(***************************************************************************)
(* Bounds of the model.                                                    *)
(***************************************************************************)
MaxWidth == 3

MaxWrites == 2

PctSamples == 2

MaxLen == 8

\* Brightness percentages the controller is driven with: evenly spaced in 0..100.
Percents == {(PctMax * k) \div PctSamples : k \in 0..PctSamples}

\* Byte values of the encoder's bounded inputs; none is its own bit mirror.
ByteVals == {1, 22, 200}

KnownVector == <<0, 1, 2, 3, 4, 5, 6, 7>>

\* Pixels the drawing calls are made on: column 0 of the lower byte row.
PixelXs == {0}

PixelYs == {8}

None == 0 - 1

(***************************************************************************)
(* scale: linear interpolation. The quotient is kept exact as num / den.   *)
(***************************************************************************)
scale_mut(value, in_min, in_max, out_min, out_max) ==
    [num |-> (value - in_min) * ((out_max - out_min) \div (in_max - in_min))
                 * (in_max - in_min) + out_min * (in_max - in_min),
     den |-> in_max - in_min]

scale(value, in_min, in_max, out_min, out_max) ==
    [num |-> (value - in_min) * (out_max - out_min) + out_min * (in_max - in_min),
     den |-> in_max - in_min]

\* int(x): truncation toward zero. The fractional part of every value scale
\* produces for an integer percentage is a multiple of 1/20, so the float
\* rounding of the division and of the sum cannot carry it across an integer.
int_trunc(q) ==
    IF (q.num >= 0) = (q.den > 0)
    THEN (IF q.num >= 0 THEN q.num ELSE -q.num) \div (IF q.den > 0 THEN q.den ELSE -q.den)
    ELSE -((IF q.num >= 0 THEN q.num ELSE -q.num) \div (IF q.den > 0 THEN q.den ELSE -q.den))

\* int(scale(value, 0, 100, self.brightness_min, self.brightness_max))
brightness_duty(value) ==
    int_trunc(scale(value, PctMin, PctMax, brightness_min, brightness_max))

(***************************************************************************)
(* _reverse_bits: the 8-iteration shift loop.                              *)
(***************************************************************************)
\* byte & (1 << i), as 0 or 1
bit_at(byte, i) == (byte \div (2 ^ i)) % 2

RECURSIVE rb_loop_mut(_, _, _)
rb_loop_mut(byte, i, result) ==
    IF i >= 7 THEN result
    ELSE rb_loop_mut(byte, i + 1, (result * 2) + bit_at(byte, i))

RECURSIVE rb_loop(_, _, _)
rb_loop(byte, i, result) ==
    IF i >= 8 THEN result
    ELSE rb_loop(byte, i + 1, (result * 2) + bit_at(byte, i))

_reverse_bits(byte) == rb_loop(byte, 0, 0)

(***************************************************************************)
(* _process_buffer.                                                        *)
(***************************************************************************)
Min(a, b) == IF a <= b THEN a ELSE b

\* list(chain(*zip(arr[0:n//2], arr[n//2:n]))): zip stops at the shorter half
interleave(a) ==
    LET n == Len(a)
        first == SubSeq(a, 1, n \div 2)
        second == SubSeq(a, (n \div 2) + 1, n)
        m == Min(Len(first), Len(second))
    IN [k \in 1..(2 * m) |-> IF k % 2 = 1 THEN first[(k + 1) \div 2] ELSE second[k \div 2]]

reversed(s) == [k \in 1..Len(s) |-> s[Len(s) + 1 - k]]

\* The for loop over range(0, len(arr), 4); i is the 0-based index. A list
\* index past the end raises IndexError, which ends the call.
RECURSIVE pb_loop_mut(_, _, _)
pb_loop_mut(a, i, new_arr) ==
    IF i >= Len(a) THEN [raised |-> FALSE, out |-> new_arr]
    ELSE IF i + 2 >= Len(a) \/ i + 3 >= Len(a) \/ i + 1 >= Len(a)
         THEN [raised |-> TRUE, out |-> <<>>]
    ELSE pb_loop_mut(a, i + 4,
             new_arr \o <<a[i + 1], a[i + 3], _reverse_bits(a[i + 2]), _reverse_bits(a[i + 4])>>)

RECURSIVE pb_loop(_, _, _)
pb_loop(a, i, new_arr) ==
    IF i >= Len(a) THEN [raised |-> FALSE, out |-> new_arr]
    ELSE IF i + 2 >= Len(a) \/ i + 3 >= Len(a) \/ i + 1 >= Len(a)
         THEN [raised |-> TRUE, out |-> <<>>]
    ELSE pb_loop(a, i + 4,
             new_arr \o <<a[i + 1], a[i + 3], _reverse_bits(a[i + 4]), _reverse_bits(a[i + 2])>>)

_process_buffer(a) ==
    LET r == pb_loop(interleave(a), 0, <<>>)
    IN IF r.raised THEN r ELSE [raised |-> FALSE, out |-> reversed(r.out)]

(***************************************************************************)
(* BusDisplay: the controller.                                             *)
(***************************************************************************)
SpiWrite(data) == [kind |-> "spi", data |-> data, level |-> None]

LeValue(v) == [kind |-> "le", data |-> <<>>, level |-> v]

Call(op, pct, show, raised) == [op |-> op, pct |-> pct, show |-> show, raised |-> raised]

FnIdle == arg = <<>> /\ res = <<>> /\ pc = "ctl"

\* The controller's variables in the specifications of the functions, which
\* have no controller.
CtlIdle ==
    /\ width = 0
    /\ buffer = <<>>
    /\ brightness = brightness_min
    /\ duty = brightness_min
    /\ trace = <<>>
    /\ calls = <<>>
    /\ onSnap = None
    /\ last = Call("none", None, FALSE, FALSE)

\* __init__(width=w, brightness=pct): the state the constructor leaves.
construct_mut(w, pct) ==
    /\ width = w
    /\ buffer = [k \in 1..((display_height \div 8) * w) |-> 0]
    /\ brightness = brightness_duty(pct)
    /\ duty = brightness_duty(pct)
    /\ trace = <<>>
    /\ calls = <<>>
    /\ onSnap = None
    /\ last = Call("construct", pct, FALSE, FALSE)

construct(w, pct) ==
    /\ width = w
    /\ buffer = [k \in 1..((display_height \div 8) * w) |-> 0]
    /\ brightness = brightness_duty(pct)
    /\ duty = brightness_min
    /\ trace = <<>>
    /\ calls = <<>>
    /\ onSnap = None
    /\ last = Call("construct", pct, FALSE, FALSE)

set_brightness_mut(value) ==
    /\ pc = "ctl"
    /\ brightness' = brightness_duty(value)
    /\ duty' = brightness_duty(value)
    /\ last' = Call("set_brightness", value, FALSE, FALSE)
    /\ UNCHANGED <<width, buffer, trace, calls, onSnap, fnVars>>

set_brightness(value) ==
    /\ pc = "ctl"
    /\ brightness' = brightness_duty(value)
    /\ last' = Call("set_brightness", value, FALSE, FALSE)
    /\ UNCHANGED <<width, buffer, duty, trace, calls, onSnap, fnVars>>

on ==
    /\ pc = "ctl"
    /\ duty' = brightness
    /\ onSnap' = brightness
    /\ last' = Call("on", None, FALSE, FALSE)
    /\ UNCHANGED <<width, buffer, brightness, trace, calls, fnVars>>

off_mut ==
    /\ pc = "ctl"
    /\ duty' = IF duty = DutyOff THEN brightness ELSE DutyOff
    /\ last' = Call("off", None, FALSE, FALSE)
    /\ UNCHANGED <<width, buffer, brightness, trace, calls, onSnap, fnVars>>

off ==
    /\ pc = "ctl"
    /\ duty' = DutyOff
    /\ last' = Call("off", None, FALSE, FALSE)
    /\ UNCHANGED <<width, buffer, brightness, trace, calls, onSnap, fnVars>>

\* write(show): _process_buffer runs first; when it raises, nothing after it runs.
write(show) ==
    LET frame == _process_buffer(buffer)
    IN /\ pc = "ctl"
       /\ Len(calls) < MaxWrites
       /\ calls' = Append(calls, buffer)
       /\ onSnap' = IF show THEN brightness ELSE onSnap
       /\ last' = Call("write", None, show, frame.raised)
       /\ IF frame.raised
          THEN UNCHANGED <<trace, duty>>
          ELSE /\ trace' = trace \o <<SpiWrite(frame.out), LeValue(0), LeValue(1), LeValue(0)>>
               /\ duty' = IF show THEN brightness ELSE duty
       /\ UNCHANGED <<width, buffer, brightness, fnVars>>

\* FrameBuffer.fill(c) over self.buffer in the MONO_VLSB format.
fill(c) ==
    /\ pc = "ctl"
    /\ buffer' = [k \in 1..Len(buffer) |-> IF c = 0 THEN 0 ELSE 255]
    /\ last' = Call("fill", c, FALSE, FALSE)
    /\ UNCHANGED <<width, brightness, duty, trace, calls, onSnap, fnVars>>

\* FrameBuffer.pixel(x, y, c) in the MONO_VLSB format: byte (y >> 3) * width + x,
\* bit y & 7.
pixel(x, y, c) ==
    LET idx == ((y \div 8) * width) + x + 1
        old == bit_at(buffer[idx], y % 8)
        new == IF c = 0 THEN 0 ELSE 1
    IN /\ pc = "ctl"
       /\ x < width
       /\ buffer' = [buffer EXCEPT ![idx] = buffer[idx] + ((new - old) * (2 ^ (y % 8)))]
       /\ last' = Call("pixel", c, FALSE, FALSE)
       /\ UNCHANGED <<width, brightness, duty, trace, calls, onSnap, fnVars>>

Init ==
    /\ \E w \in 1..MaxWidth : \E pct \in Percents : construct(w, pct)
    /\ FnIdle

Next ==
    \/ \E value \in Percents : set_brightness(value)
    \/ on
    \/ off
    \/ \E show \in BOOLEAN : write(show)
    \/ \E c \in {0, 1} : fill(c)
    \/ \E x \in PixelXs : \E y \in PixelYs : \E c \in {0, 1} : pixel(x, y, c)

Spec == Init /\ [][Next]_vars

(***************************************************************************)
(* The functions on their own: each specification draws the input and      *)
(* applies the function once.                                              *)
(***************************************************************************)
\* _reverse_bits(b), and _reverse_bits of that.
InitBits ==
    /\ arg \in 0..255
    /\ res = [r |-> 0, rr |-> 0]
    /\ pc = "call"
    /\ CtlIdle

reverse_bits_call ==
    /\ pc = "call"
    /\ res' = [r |-> _reverse_bits(arg), rr |-> _reverse_bits(_reverse_bits(arg))]
    /\ pc' = "done"
    /\ UNCHANGED <<arg, ctlVars>>

SpecBits == InitBits /\ [][reverse_bits_call]_vars

\* int(scale(p, 0, 100, 65535, 40000)) for two percentages p, q.
InitScale ==
    /\ arg \in [p : PctMin..PctMax, q : PctMin..PctMax]
    /\ res = [dp |-> 0, dq |-> 0]
    /\ pc = "call"
    /\ CtlIdle

brightness_duty_call ==
    /\ pc = "call"
    /\ res' = [dp |-> brightness_duty(arg.p), dq |-> brightness_duty(arg.q)]
    /\ pc' = "done"
    /\ UNCHANGED <<arg, ctlVars>>

SpecScale == InitScale /\ [][brightness_duty_call]_vars

\* _process_buffer(buf) for the byte sequences of length 0..MaxLen over ByteVals
\* and for the known vector.
EncInputs == UNION {[1..n -> ByteVals] : n \in 0..MaxLen} \cup {KnownVector}

InitEnc ==
    /\ arg \in EncInputs
    /\ res = [raised |-> FALSE, out |-> <<>>]
    /\ pc = "call"
    /\ CtlIdle

process_buffer_call ==
    /\ pc = "call"
    /\ res' = _process_buffer(arg)
    /\ pc' = "done"
    /\ UNCHANGED <<arg, ctlVars>>

SpecEnc == InitEnc /\ [][process_buffer_call]_vars

(***************************************************************************)
(* Reference definitions the claims are stated with.                       *)
(***************************************************************************)
\* The byte whose bit i is bit 7-i of b.
Mirror(b) ==
    (bit_at(b, 0) * 128) + (bit_at(b, 1) * 64) + (bit_at(b, 2) * 32) + (bit_at(b, 3) * 16)
    + (bit_at(b, 4) * 8) + (bit_at(b, 5) * 4) + (bit_at(b, 6) * 2) + bit_at(b, 7)

\* The four-step reference encoding of a buffer whose length is a multiple of 4,
\* by position: halves interleaved, groups (a, b, c, d) -> (a, c, ~d, ~b), reversed.
WireRef(buf) ==
    LET n == Len(buf)
        inter == [k \in 1..n |-> IF k % 2 = 1 THEN buf[(k + 1) \div 2]
                                               ELSE buf[(n \div 2) + (k \div 2)]]
        grouped == [k \in 1..n |->
                      LET g == 4 * ((k - 1) \div 4)
                      IN CASE (k - 1) % 4 = 0 -> inter[g + 1]
                           [] (k - 1) % 4 = 1 -> inter[g + 3]
                           [] (k - 1) % 4 = 2 -> Mirror(inter[g + 4])
                           [] OTHER -> Mirror(inter[g + 2])]
    IN [k \in 1..n |-> grouped[n + 1 - k]]

\* C1: for a buffer whose length is a multiple of 4, _process_buffer returns
\* without raising and its result is the four-step reference encoding; the
\* known vector [0..7] gives [0x60, 0xE0, 3, 2, 0x20, 0xA0, 1, 0].
C1_EncodeMatchesReference ==
    (pc = "done" /\ Len(arg) % 4 = 0) =>
        /\ ~res.raised
        /\ res.out = WireRef(arg)
        /\ (arg = KnownVector => res.out = <<96, 224, 3, 2, 32, 160, 1, 0>>)

C1_Witness ==
    /\ pc = "done"
    /\ arg = KnownVector
    /\ res.out = <<96, 224, 3, 2, 32, 160, 1, 0>>

\* C7 as claimed: for every even-length buffer, _process_buffer returns without
\* raising and its result has the length of the input.
C7_EvenLengthPreserved ==
    (pc = "done" /\ Len(arg) % 2 = 0) => (~res.raised /\ Len(res.out) = Len(arg))

\* C8: the duty int(scale(p, 0, 100, 65535, 40000)) is strictly decreasing in
\* the integer percentage p over 0..100, is 65535 at 0 and 40000 at 100.
C8_DutyStrictlyDecreasing ==
    pc = "done" =>
        /\ (arg.p < arg.q => res.dp > res.dq)
        /\ (arg.p = 0 => res.dp = 65535)
        /\ (arg.p = 100 => res.dp = 40000)

C8_Witness ==
    /\ pc = "done"
    /\ arg.p = 99
    /\ arg.q = 100
    /\ res.dp = 40255
    /\ res.dq = 40000

\* C9: _reverse_bits maps a byte to a byte whose bit i is bit 7-i of the input,
\* applying it twice gives the input back, and 0x00 -> 0x00, 0xFF -> 0xFF,
\* 0x01 -> 0x80, 0b00010000 -> 0b00001000.
C9_ReverseBitsInvolution ==
    pc = "done" =>
        /\ res.r \in 0..255
        /\ \A i \in 0..7 : bit_at(res.r, i) = bit_at(arg, 7 - i)
        /\ res.rr = arg
        /\ (arg = 0 => res.r = 0)
        /\ (arg = 255 => res.r = 255)
        /\ (arg = 1 => res.r = 128)
        /\ (arg = 16 => res.r = 8)

C9_Witness ==
    /\ pc = "done"
    /\ arg = 16
    /\ res.r = 8
    /\ res.rr = 16

\* The state of the program proper (the history variables left out).
ProgState == <<width, buffer, brightness, duty>>

\* The bus and latch calls one write() of buffer buf makes, as specified: the
\* encoded frame, then the latch low, high, low.
IsWriteBlock(t, k, buf) ==
    /\ t[k + 1].kind = "spi"
    /\ Len(t[k + 1].data) = Len(buf)
    /\ (Len(buf) % 4 = 0 => t[k + 1].data = WireRef(buf))
    /\ t[k + 2] = LeValue(0)
    /\ t[k + 3] = LeValue(1)
    /\ t[k + 4] = LeValue(0)

\* C2 as claimed: the bus and latch calls made so far are exactly one block per
\* write() call (the frame of the buffer's full length, then latch 0, 1, 0);
\* set_brightness, on and off add nothing.
C2_TraceIsWriteBlocks ==
    /\ Len(trace) = 4 * Len(calls)
    /\ \A i \in 1..Len(calls) : IsWriteBlock(trace, 4 * (i - 1), calls[i])

\* C3 as claimed: a write(show=True) call leaves the output-enable duty equal to
\* the stored brightness duty, and a write(show=False) call leaves it as it was.
C3_WriteShowSetsDuty ==
    [][last'.op = "write" =>
          (IF last'.show THEN duty' = brightness' ELSE duty' = duty)]_vars

\* C4: after construction with any brightness the output-enable duty is 65535
\* and the brightness has only set the stored duty; the output-enable duty
\* stays 65535 as long as neither on() nor write(show=True) has been called.
C4_StartsOff ==
    /\ (last.op = "construct" =>
           (duty = 65535 /\ brightness = 65535 - ((25535 * last.pct + 99) \div 100)))
    /\ (onSnap = None => duty = 65535)

C4_Witness ==
    /\ onSnap = None
    /\ last.op = "write"
    /\ ~last.raised
    /\ brightness = brightness_max
    /\ duty = 65535

\* C5: off() sets the output-enable duty to 65535 whatever the stored
\* brightness, leaves the stored brightness (and the buffer, bus and latch)
\* unchanged, and a second off() changes nothing of the program's state.
C5_OffIdempotent ==
    /\ [][last'.op = "off" =>
             (duty' = 65535 /\ UNCHANGED <<brightness, buffer, width, trace>>)]_vars
    /\ [](last.op = "off" => ~ENABLED (off /\ ProgState' # ProgState))

C5_Witness ==
    /\ last.op = "off"
    /\ duty = 65535
    /\ brightness = brightness_max
    /\ onSnap = brightness_max

\* C6: set_brightness(v) changes the stored brightness duty only: the
\* output-enable duty, the buffer, the bus and the latch stay as they are; the
\* output-enable duty changes only in on(), off() and write(show=True), and on()
\* and write(show=True) give it the stored duty of that moment.
C6_SetBrightnessOnlyStores ==
    [][/\ (last'.op = "set_brightness" =>
              (/\ brightness' = 65535 - ((25535 * last'.pct + 99) \div 100)
               /\ UNCHANGED <<duty, buffer, width, trace>>))
       /\ (duty' # duty =>
              (/\ last'.op \in {"on", "off", "write"}
               /\ (last'.op = "write" => last'.show)
               /\ (last'.op # "off" => duty' = brightness)))]_vars

C6_Witness ==
    /\ last.op = "set_brightness"
    /\ onSnap # None
    /\ duty # 65535
    /\ duty # brightness

\* C10 as claimed: the stored brightness duty and the output-enable duty lie in
\* 40000..65535, and the output-enable duty is 65535 or the stored brightness
\* duty of the moment of the latest on() / write(show=True) call.
C10_DutyInRange ==
    /\ brightness \in 40000..65535
    /\ duty \in 40000..65535
    /\ (duty = 65535 \/ (onSnap # None /\ duty = onSnap))

====
